---- MODULE Spec2Model ----
(***************************************************************************)
(* A model of ws-queue-web (src/src/lib.rs): WebSocketClient, a facade     *)
(* over a browser WebSocket that holds one replaceable message handler and *)
(* one replaceable error handler (HandlerCell), queues inbound messages    *)
(* while no message handler is installed and remembers one error while no  *)
(* error handler is installed.                                             *)
(*                                                                         *)
(* Everything runs on one thread.  Transport events are delivered by the   *)
(* event loop, one at a time, only when no Rust code is running (the call  *)
(* stack is empty).  A handler is user code: while it runs it may call the *)
(* client's public methods (set_onmessage, set_onerror, send) any number   *)
(* of times and then returns.  The methods take &mut self (lines 202, 208, *)
(* 218): a handler can call them when a listener called it, not when one   *)
(* of the client's methods called it (the drain of set_onmessage,          *)
(* set_onerror, report_error), which holds the client for the whole call.  *)
(* The model keeps the stack of handler                                    *)
(* invocations in progress; the step that starts an invocation contains    *)
(* all of the calling code up to the call, and the step that returns from  *)
(* it contains all of the calling code after the call (the drop of the     *)
(* HandlerRef, the next turn of the drain loop).                           *)
(*                                                                         *)
(* A panic (RefCell's "already borrowed") does not end the program; what   *)
(* follows depends on the build.  With panic=unwind the stack unwinds to   *)
(* whoever catches the panic (the handler that made the call, a handler    *)
(* under it, or the top level), and every HandlerRef on the way is dropped *)
(* as on a return.  With panic=abort (wasm32) the call traps: no destructor *)
(* runs, every cell borrowed at the panic stays borrowed for good, and the *)
(* event loop goes on calling the listeners.  The first trap always        *)
(* happens in a method of the client (lines 220, 228), which holds the     *)
(* client by &mut self and never gives it back: after it the owner can     *)
(* neither call the client nor drop it.  The build is fixed for the        *)
(* run: once a panic has unwound none aborts, and the reverse (panicked).  *)
(*                                                                         *)
(* Only the function cell of a HandlerCell can be borrowed twice.  The     *)
(* RefMut of queue (line 211) and of error (line 221) also live while the  *)
(* handler runs, but every other access to them comes after a borrow of    *)
(* the function cell that the same invocation holds, so they have no flag. *)
(*                                                                         *)
(* For the same reason the owner may drop the client at the top level or   *)
(* from inside a handler that a listener called, not while one of the      *)
(* client's own methods is running.                                        *)
(* The expect() of the message listener (line 130) and the unwrap()s of    *)
(* EventListener are not modelled: the browser always hands a MessageEvent *)
(* to a "message" listener and accepts the (un)registration.               *)
(***************************************************************************)
EXTENDS Integers, Sequences, FiniteSets, TLC

\* ------------------------------------------------------------------ bounds

\* transport events (open, message, error, close) delivered in one run
MaxEvents == 3
\* public method calls (set_onmessage, set_onerror, send) made in one run,
\* from the top level or from inside a handler that a listener called
MaxCalls == 4

\* ------------------------------------------------------------------ values

\* Handler<T> = Option<Box<dyn FnMut(T)>>: None, or one of the user's closures
None == "None"
Handlers == {"h1", "h2"}
Handler == Handlers \cup {None}

\* HandlerCell.replacement: Option<Handler<T>>; NoRepl is the outer None
NoRepl == "NoRepl"

\* payloads as code units / bytes
Hi == <<104, 105>>
Bytes == <<1, 2, 3>>
Bye == <<98, 121, 101>>

\* enum Message
Text(s) == [tag |-> "Text", data |-> s]
Binary(b) == [tag |-> "Binary", data |-> b]
Messages == {Text(Hi), Binary(Bytes), Text(Bye)}

\* what MessageEvent.data() can be: an ArrayBuffer, a JsString, something else
Payloads == {[kind |-> "ArrayBuffer", data |-> Bytes],
             [kind |-> "JsString", data |-> Hi],
             [kind |-> "Blob", data |-> Bytes]}

\* the message listener's "bail" outcome
Discard == [tag |-> "Discard", data |-> <<>>]

\* what a "close" listener can be handed
CloseKinds == {"clean", "unclean", "notCloseEvent"}

\* WebSocketClient.error: Option<JsValue>.  A JsValue is identified by where
\* it came from and by its rank among the failures of the run.
NoErr == [kind |-> "none", n |-> 0]
Err(kind, n) == [kind |-> kind, n |-> n]

\* ------------------------------------------------------------------ state

VARIABLES
    on_message,     \* HandlerCell<Message>: function, replacement, borrow flag
    on_error,       \* HandlerCell<JsValue>
    queue,          \* VecDeque<Message>
    error,          \* Option<JsValue>
    init_message,   \* the init_message given to new()
    listeners,      \* the event names with a registered EventListener
    removed,        \* history: the event names unregistered, in order
    stack,          \* handler invocations in progress, innermost last
    panic,          \* "none", or the code whose borrow_mut has just panicked
    panicked,       \* history: "no", or how the panics so far ended: "unwound"
                    \* (a panic=unwind build) or "aborted" (a panic=abort build)
    opened,         \* the transport has fired "open"
    arrivals,       \* history: recognised inbound messages, in arrival order
    delivered,      \* history: message handler invocations, in order
    errDelivered,   \* history: error handler invocations, in order
    nErr,           \* history: failures reported so far
    nInitSend,      \* history: attempts to send the init message
    nEvents,        \* history: transport events so far
    nCalls,         \* history: public method calls so far
    nSetMsg,        \* history: set_onmessage calls so far
    last            \* history: the operation of the latest step

vars == <<on_message, on_error, queue, error, init_message, listeners, removed, stack,
          panic, panicked, opened, arrivals, delivered, errDelivered, nErr, nInitSend,
          nEvents, nCalls, nSetMsg, last>>

\* ------------------------------------------------------------ HandlerCell

HandlerCell_new == [function |-> None, replacement |-> NoRepl, borrowed |-> FALSE]

\* mutant of can_borrow: the cell hands out a second exclusive borrow
can_borrow_always(cell) == TRUE

\* HandlerCell::borrow_mut: RefCell::borrow_mut on function (the caller has
\* checked can_borrow: a second borrow panics)
can_borrow(cell) == ~cell.borrowed
borrow_mut(cell) == [cell EXCEPT !.borrowed = TRUE]

\* HandlerCell::replace: try_borrow_mut, else remember the replacement
replace(cell, new_handler) ==
    IF can_borrow(cell)
    THEN [cell |-> [cell EXCEPT !.function = new_handler], applied |-> TRUE]
    ELSE [cell |-> [cell EXCEPT !.replacement = new_handler], applied |-> FALSE]

\* mutant of drop: the HandlerRef forgets the replacement instead of
\* installing it
drop_forget(cell) ==
    [function |-> cell.function, replacement |-> NoRepl, borrowed |-> FALSE]

\* Drop for HandlerRef (take the replacement, if any, into function), then
\* the drop of its RefMut field
drop(cell) ==
    [function |-> IF cell.replacement # NoRepl THEN cell.replacement
                  ELSE cell.function,
     replacement |-> NoRepl,
     borrowed |-> FALSE]

\* ------------------------------------------------------------ conversions

\* mutant of translate: whatever is no ArrayBuffer is taken for text
translate_any(payload) ==
    IF payload.kind = "ArrayBuffer" THEN Binary(payload.data)
    ELSE Text(payload.data)

\* message listener: ArrayBuffer -> Binary, JsString -> Text, else bail
translate(payload) ==
    IF payload.kind = "ArrayBuffer" THEN Binary(payload.data)
    ELSE IF payload.kind = "JsString" THEN Text(payload.data)
    ELSE Discard

\* mutant of was_clean: the clean arm of the match is always taken
was_clean_always(kind) == TRUE

\* CloseEvent::was_clean, for what the close listener was handed: the
\* match arm "Ok(event) if event.was_clean()"
was_clean(kind) == kind = "clean"

\* mutant of push_back: push_front in its place
push_front(q, m) == <<m>> \o q

\* VecDeque::push_back
push_back(q, m) == Append(q, m)

\* mutant of pop_front: pop_back in its place
pop_back(q) == [value |-> q[Len(q)], rest |-> SubSeq(q, 1, Len(q) - 1)]

\* VecDeque::pop_front on a queue that is not empty: what it returns and
\* what it leaves
pop_front(q) == [value |-> Head(q), rest |-> Tail(q)]

\* "*cell = Some(err)" and "cell.replace(err)": the new value overwrites
store(cur, err) == err

\* mutant of take: the latch is read and left as it is
take_keep(cur) == cur

\* Option::take: what it leaves in the cell
take(cur) == NoErr

\* the EventListeners that new() registers: "open" only with an init message
new_listeners(init) ==
    {"message", "error", "close"} \cup (IF init # None THEN {"open"} ELSE {})

\* mutant of dropped_listeners: the Option holding the "open" listener is
\* not dropped
dropped_listeners_but_open(ls) ==
    SelectSeq(<<"message", "error", "close">>, LAMBDA name : name \in ls)

\* the drop of the fields _raw_on_open, _raw_on_message, _raw_on_error and
\* _raw_on_close, in the order of their declaration: each EventListener
\* that exists removes itself from the transport
dropped_listeners(ls) ==
    SelectSeq(<<"open", "message", "error", "close">>, LAMBDA name : name \in ls)

\* ------------------------------------------------------------------ frames

\* an invocation in progress: the cell whose handler runs, the code that
\* called it, the handler
Frame(cell, via, h) == [cell |-> cell, via |-> via, h |-> h]
Top == stack[Len(stack)]
Rest == SubSeq(stack, 1, Len(stack) - 1)

\* no panic is on its way
Running == panic = "none"

\* the client has not been dropped: its methods can be called
Alive == listeners # {}

\* the names of the events the client listens to: what a handler called by
\* a listener has as its caller
ListenerNames == {"open", "message", "error", "close"}

\* the owner can take the client by &mut self or drop it: no method of the
\* client is running (every invocation in progress was called by a
\* listener) and none has trapped, which would hold the client for good
ClientFree ==
    /\ panicked # "aborted"
    /\ \A i \in DOMAIN stack : stack[i].via \in ListenerNames

Step(op, arg) == last' = [op |-> op, arg |-> arg, depth |-> Len(stack)]

\* ----------------------------------------------------------------- routing

\* mutant of RouteMessage: without a handler the message is dropped
RouteMessage_lossy(msg, via) ==
    /\ arrivals' = Append(arrivals,
           [msg |-> msg, src |-> via, queued |-> on_message.function = None])
    /\ IF on_message.function # None
       THEN /\ on_message' = borrow_mut(on_message)
            /\ stack' = Append(stack, Frame("msg", via, on_message.function))
            /\ delivered' = Append(delivered,
                   [h |-> on_message.function, msg |-> msg, via |-> via])
            /\ queue' = queue
       ELSE /\ on_message' = drop(borrow_mut(on_message))
            /\ UNCHANGED <<queue, stack, delivered>>

\* "if let Some(handler) = *handler { handler(msg) } else { queue.push_back(msg) }"
\* of the message listener and of the clean branch of the close listener,
\* after "let mut handler = cell.borrow_mut()"
RouteMessage(msg, via) ==
    /\ arrivals' = Append(arrivals,
           [msg |-> msg, src |-> via, queued |-> on_message.function = None])
    /\ IF on_message.function # None
       THEN /\ on_message' = borrow_mut(on_message)
            /\ stack' = Append(stack, Frame("msg", via, on_message.function))
            /\ delivered' = Append(delivered,
                   [h |-> on_message.function, msg |-> msg, via |-> via])
            /\ queue' = queue
       ELSE /\ on_message' = drop(borrow_mut(on_message))
            /\ queue' = push_back(queue, msg)
            /\ UNCHANGED <<stack, delivered>>

\* "if let Some(handler) = *handler { handler(err) } else { *cell = Some(err) }"
\* of the open and error listeners, of the two error branches of the close
\* listener and of report_error, after the borrow_mut of on_error
RouteError(kind, via) ==
    /\ nErr' = nErr + 1
    /\ IF on_error.function # None
       THEN /\ on_error' = borrow_mut(on_error)
            /\ stack' = Append(stack, Frame("err", via, on_error.function))
            /\ errDelivered' = Append(errDelivered,
                   [h |-> on_error.function, err |-> Err(kind, nErr + 1), via |-> via])
            /\ error' = error
       ELSE /\ on_error' = drop(borrow_mut(on_error))
            /\ error' = store(error, Err(kind, nErr + 1))
            /\ UNCHANGED <<stack, errDelivered>>

\* mutant of Drain: "if let" in place of "while let", one queued message is
\* handed over and the rest stays
Drain_single(cell, below) ==
    IF stack # <<>> /\ Top.cell = "msg" /\ Top.via = "drain"
    THEN /\ on_message' = cell
         /\ stack' = below
         /\ UNCHANGED <<queue, delivered>>
    ELSE IF cell.function # None /\ queue # <<>>
         THEN /\ on_message' = borrow_mut(cell)
              /\ queue' = Tail(queue)
              /\ stack' = Append(below, Frame("msg", "drain", cell.function))
              /\ delivered' = Append(delivered,
                     [h |-> cell.function, msg |-> Head(queue), via |-> "drain"])
         ELSE /\ on_message' = drop(borrow_mut(cell))
              /\ stack' = below
              /\ UNCHANGED <<queue, delivered>>

\* one turn of the while-let of set_onmessage, entered with the cell not
\* borrowed and `below` the invocations under it: borrow the cell; with a
\* handler in it pop the front of the queue and call the handler with it,
\* else leave the loop
Drain(cell, below) ==
    IF cell.function # None /\ queue # <<>>
    THEN /\ on_message' = borrow_mut(cell)
         /\ queue' = pop_front(queue).rest
         /\ stack' = Append(below, Frame("msg", "drain", cell.function))
         /\ delivered' = Append(delivered,
                [h |-> cell.function, msg |-> pop_front(queue).value, via |-> "drain"])
    ELSE /\ on_message' = drop(borrow_mut(cell))
         /\ stack' = below
         /\ UNCHANGED <<queue, delivered>>

\* ------------------------------------------------------- transport events
\* A listener borrows its cell first (lines 109, 131, 152, 169, 177, 185):
\* on a cell that an aborted call left borrowed, that borrow_mut panics.

\* the "message" listener, lines 127-146
MessageEvent(payload) ==
    /\ Running /\ stack = <<>> /\ nEvents < MaxEvents
    /\ "message" \in listeners
    /\ IF ~can_borrow(on_message)
       THEN /\ panic' = "message"
            /\ arrivals' = IF translate(payload) = Discard THEN arrivals
                           ELSE Append(arrivals, [msg |-> translate(payload),
                                    src |-> "message", queued |-> FALSE])
            /\ UNCHANGED <<on_message, queue, stack, delivered>>
       ELSE /\ panic' = panic
            /\ IF translate(payload) = Discard
               THEN /\ on_message' = drop(borrow_mut(on_message))
                    /\ UNCHANGED <<queue, stack, arrivals, delivered>>
               ELSE RouteMessage(translate(payload), "message")
    /\ nEvents' = nEvents + 1
    /\ Step("message", payload.kind)
    /\ UNCHANGED <<on_error, error, panicked, init_message, listeners, removed,
                   opened, errDelivered, nErr, nInitSend, nCalls, nSetMsg>>

\* the "error" listener, lines 151-158
ErrorEvent ==
    /\ Running /\ stack = <<>> /\ nEvents < MaxEvents
    /\ "error" \in listeners
    /\ IF ~can_borrow(on_error)
       THEN /\ panic' = "error"
            /\ nErr' = nErr + 1
            /\ UNCHANGED <<on_error, error, stack, errDelivered>>
       ELSE /\ panic' = panic
            /\ RouteError("error", "error")
    /\ nEvents' = nEvents + 1
    /\ Step("error", "")
    /\ UNCHANGED <<on_message, queue, panicked, init_message, listeners, removed,
                   opened, arrivals, delivered, nInitSend, nCalls, nSetMsg>>

\* the "close" listener, lines 165-193
CloseEvent(kind, reason) ==
    /\ Running /\ stack = <<>> /\ nEvents < MaxEvents
    /\ "close" \in listeners
    /\ IF was_clean(kind)
       THEN /\ IF ~can_borrow(on_message)
               THEN /\ panic' = "close"
                    /\ arrivals' = Append(arrivals, [msg |-> Text(reason),
                                      src |-> "close", queued |-> FALSE])
                    /\ UNCHANGED <<on_message, queue, stack, delivered>>
               ELSE /\ panic' = panic
                    /\ RouteMessage(Text(reason), "close")
            /\ UNCHANGED <<on_error, error, errDelivered, nErr>>
       ELSE /\ IF ~can_borrow(on_error)
               THEN /\ panic' = "close"
                    /\ nErr' = nErr + 1
                    /\ UNCHANGED <<on_error, error, stack, errDelivered>>
               ELSE /\ panic' = panic
                    /\ RouteError(kind, "close")
            /\ UNCHANGED <<on_message, queue, arrivals, delivered>>
    /\ nEvents' = nEvents + 1
    /\ Step("close", kind)
    /\ UNCHANGED <<panicked, init_message, listeners, removed, opened,
                   nInitSend, nCalls, nSetMsg>>

\* the transport fires "open" (at most once); the "open" listener, lines
\* 108-121, exists only when an init message was given: it borrows on_error,
\* then sends.  sent: the transport's send_with_str / send_with_u8_array
\* returned Ok
OpenEvent(sent) ==
    /\ Running /\ stack = <<>> /\ nEvents < MaxEvents
    /\ ~opened
    /\ opened' = TRUE
    /\ IF "open" \in listeners
       THEN IF ~can_borrow(on_error)
            THEN /\ panic' = "open"
                 /\ UNCHANGED <<nInitSend, on_error, error, stack, errDelivered, nErr>>
            ELSE /\ panic' = panic
                 /\ nInitSend' = nInitSend + 1
                 /\ IF sent
                    THEN /\ on_error' = drop(borrow_mut(on_error))
                         /\ UNCHANGED <<error, stack, errDelivered, nErr>>
                    ELSE RouteError("init", "open")
       ELSE UNCHANGED <<panic, nInitSend, on_error, error, stack, errDelivered, nErr>>
    /\ nEvents' = nEvents + 1
    /\ Step("open", IF sent THEN "ok" ELSE "fail")
    /\ UNCHANGED <<on_message, queue, panicked, init_message, listeners, removed,
                   arrivals, delivered, nCalls, nSetMsg>>

\* --------------------------------------------------------- public methods
\* Each is called from the top level (stack empty) or by the handler that is
\* running (the innermost invocation), on a client that still exists.

\* WebSocketClient::set_onmessage, lines 208-216, up to its first call of a
\* handler or to its return
SetOnMessage(new_handler) ==
    /\ Running /\ Alive /\ ClientFree /\ nCalls < MaxCalls
    /\ IF replace(on_message, new_handler).applied
       THEN Drain(replace(on_message, new_handler).cell, stack)
       ELSE /\ on_message' = replace(on_message, new_handler).cell
            /\ UNCHANGED <<queue, stack, delivered>>
    /\ nCalls' = nCalls + 1
    /\ nSetMsg' = nSetMsg + 1
    /\ Step("set_onmessage", new_handler)
    /\ UNCHANGED <<on_error, error, panicked, init_message, listeners, removed,
                   panic, opened, arrivals, errDelivered, nErr, nInitSend, nEvents>>

\* WebSocketClient::set_onerror, lines 218-225: replace, then borrow_mut
\* whatever replace answered
SetOnError(new_handler) ==
    /\ Running /\ Alive /\ ClientFree /\ nCalls < MaxCalls
    /\ LET cell == replace(on_error, new_handler).cell IN
       IF ~can_borrow(cell)
       THEN /\ panic' = "set_onerror"
            /\ on_error' = cell
            /\ UNCHANGED <<error, stack, errDelivered>>
       ELSE /\ panic' = panic
            /\ IF cell.function # None /\ error # NoErr
               THEN /\ on_error' = borrow_mut(cell)
                    /\ error' = take(error)
                    /\ stack' = Append(stack, Frame("err", "set_onerror", cell.function))
                    /\ errDelivered' = Append(errDelivered,
                           [h |-> cell.function, err |-> error, via |-> "set_onerror"])
               ELSE /\ on_error' = drop(borrow_mut(cell))
                    /\ UNCHANGED <<error, stack, errDelivered>>
    /\ nCalls' = nCalls + 1
    /\ Step("set_onerror", new_handler)
    /\ UNCHANGED <<on_message, queue, panicked, init_message, listeners, removed,
                   opened, arrivals, delivered, nErr, nInitSend, nEvents, nSetMsg>>

\* mutant of report_error: without a handler the failure is dropped
report_error_dropping ==
    IF ~can_borrow(on_error)
    THEN /\ panic' = "report_error"
         /\ nErr' = nErr + 1
         /\ UNCHANGED <<on_error, error, stack, errDelivered>>
    ELSE /\ panic' = panic
         /\ IF on_error.function # None
            THEN RouteError("send", "report_error")
            ELSE /\ nErr' = nErr + 1
                 /\ UNCHANGED <<on_error, error, stack, errDelivered>>

\* WebSocketClient::report_error, lines 227-233
report_error ==
    IF ~can_borrow(on_error)
    THEN /\ panic' = "report_error"
         /\ nErr' = nErr + 1
         /\ UNCHANGED <<on_error, error, stack, errDelivered>>
    ELSE /\ panic' = panic
         /\ RouteError("send", "report_error")

\* WebSocketClient::send, lines 202-206.  sent: send_with_str returned Ok
Send(sent) ==
    /\ Running /\ Alive /\ ClientFree /\ nCalls < MaxCalls
    /\ IF sent
       THEN UNCHANGED <<on_error, error, stack, errDelivered, nErr, panic>>
       ELSE report_error
    /\ nCalls' = nCalls + 1
    /\ Step("send", IF sent THEN "ok" ELSE "fail")
    /\ UNCHANGED <<on_message, queue, panicked, init_message, listeners, removed,
                   opened, arrivals, delivered, nInitSend, nEvents, nSetMsg>>

\* the running handler returns: the rest of the code that called it.  The
\* cells outlive the client (the listener's closure holds an Rc of each), so
\* a handler that dropped the client returns as any other
Return ==
    /\ Running /\ stack # <<>>
    /\ IF Top.cell = "msg"
       THEN /\ IF Top.via = "drain"
               THEN Drain(drop(on_message), Rest)
               ELSE /\ on_message' = drop(on_message)
                    /\ stack' = Rest
                    /\ UNCHANGED <<queue, delivered>>
            /\ UNCHANGED on_error
       ELSE /\ on_error' = drop(on_error)
            /\ stack' = Rest
            /\ UNCHANGED <<on_message, queue, delivered>>
    /\ Step("return", Top.via)
    /\ UNCHANGED <<error, panicked, init_message, listeners, removed, panic,
                   opened, arrivals, errDelivered, nErr, nInitSend, nEvents, nCalls,
                   nSetMsg>>

\* the cell after the unwinding of the topmost k invocations: the HandlerRef
\* of each invocation of this cell among them is dropped
unwound(cell, name, k) ==
    IF \E i \in DOMAIN stack : i > Len(stack) - k /\ stack[i].cell = name
    THEN drop(cell)
    ELSE cell

\* a panic=unwind build: the panic unwinds through the topmost k invocations and is
\* caught there (k = Len(stack): at the top level, by whoever called the
\* listener or the method).  The calls unwound do not resume: a drain loop
\* among them hands over nothing more
Unwind(k) ==
    /\ panic # "none" /\ panicked # "aborted"
    /\ panicked' = "unwound"
    /\ on_message' = unwound(on_message, "msg", k)
    /\ on_error' = unwound(on_error, "err", k)
    /\ stack' = SubSeq(stack, 1, Len(stack) - k)
    /\ panic' = "none"
    /\ Step("unwind", panic)
    /\ UNCHANGED <<queue, error, init_message, listeners, removed,
                   opened, arrivals, delivered, errDelivered, nErr, nInitSend,
                   nEvents, nCalls, nSetMsg>>

\* a panic=abort build: the call traps back to the event loop; no HandlerRef is
\* dropped, so the cells borrowed at the panic stay borrowed and a pending
\* replacement stays pending
Abort ==
    /\ panic # "none" /\ panicked # "unwound"
    /\ panicked' = "aborted"
    /\ stack' = <<>>
    /\ panic' = "none"
    /\ Step("abort", panic)
    /\ UNCHANGED <<on_message, on_error, queue, error, init_message,
                   listeners, removed, opened, arrivals, delivered, errDelivered,
                   nErr, nInitSend, nEvents, nCalls, nSetMsg>>

\* the owner drops the client: Drop for EventListener, lines 258-264, for
\* each of its listeners.  The owner is the top level or a handler that a
\* listener called; no method of the client is running
DropClient ==
    /\ Running /\ Alive /\ ClientFree
    /\ removed' = dropped_listeners(listeners)
    /\ listeners' = listeners \ {removed'[i] : i \in DOMAIN removed'}
    /\ Step("drop", "")
    /\ UNCHANGED <<on_message, on_error, queue, error, init_message, stack,
                   panic, panicked, opened, arrivals, delivered, errDelivered,
                   nErr, nInitSend, nEvents, nCalls, nSetMsg>>

\* ------------------------------------------------------------ specification

\* WebSocketClient::new, lines 91-200, returned Ok
Init ==
    /\ on_message = HandlerCell_new
    /\ on_error = HandlerCell_new
    /\ queue = <<>>
    /\ error = NoErr
    /\ init_message \in {None, "hello"}
    /\ listeners = new_listeners(init_message)
    /\ removed = <<>>
    /\ stack = <<>>
    /\ panic = "none"
    /\ panicked = "no"
    /\ opened = FALSE
    /\ arrivals = <<>>
    /\ delivered = <<>>
    /\ errDelivered = <<>>
    /\ nErr = 0
    /\ nInitSend = 0
    /\ nEvents = 0
    /\ nCalls = 0
    /\ nSetMsg = 0
    /\ last = [op |-> "new", arg |-> "", depth |-> 0]

Next ==
    \/ \E payload \in Payloads : MessageEvent(payload)
    \/ ErrorEvent
    \/ \E kind \in CloseKinds : CloseEvent(kind, Bye)
    \/ \E sent \in BOOLEAN : OpenEvent(sent)
    \/ \E h \in Handler : SetOnMessage(h)
    \/ \E h \in Handler : SetOnError(h)
    \/ \E sent \in BOOLEAN : Send(sent)
    \/ Return
    \/ \E k \in 0..Len(stack) : Unwind(k)
    \/ Abort
    \/ DropClient

Spec == Init /\ [][Next]_vars

\* ------------------------------------------------------------ properties

Msgs(seq) == [i \in DOMAIN seq |-> seq[i].msg]
Latest(seq) == seq[Len(seq)]

\* the step just taken is an inbound message: a recognised message event or
\* a clean close
Arrived == arrivals' # arrivals

\* the step just taken reported a failure of the transport
Failed == nErr' = nErr + 1

\* the invocations in progress of the handler of a cell
Invocations(c) == {i \in DOMAIN stack : stack[i].cell = c}

\* what has been handed to message handlers, then what waits in the queue,
\* is what arrived, in arrival order
\* the messages that found no handler and were queued, and what the drain
\* of set_onmessage has handed over, each in its order
Buffered == SelectSeq(arrivals, LAMBDA a : a.queued)
Drained == SelectSeq(delivered, LAMBDA d : d.via = "drain")

Conserved == Msgs(delivered) \o queue = Msgs(arrivals)

\* C1: messages and clean closes that arrived before any message handler was
\* installed are all handed, once each and in arrival order, to the handler of
\* the first set_onmessage(Some(h)), by the drain loop of that call and
\* before anything else is delivered: when the call has returned (no
\* invocation in progress) the queue is empty and the drain has given h
\* every queued arrival.
C1_FirstInstallDrains ==
    (nSetMsg = 1 /\ stack = <<>> /\ on_message.function # None) =>
        /\ queue = <<>>
        /\ Len(Drained) = Len(Buffered)
        /\ \A i \in DOMAIN Drained :
              /\ Drained[i].h = on_message.function
              /\ Drained[i].msg = Buffered[i].msg
              /\ delivered[i] = Drained[i]
              /\ arrivals[i] = Buffered[i]

\* a message and then a clean close were queued, and the one set_onmessage
\* call has drained both and returned
C1_Witness ==
    /\ nSetMsg = 1 /\ stack = <<>> /\ queue = <<>>
    /\ last.op = "return" /\ last.arg = "drain"
    /\ Len(delivered) = 2
    /\ delivered[1].via = "drain" /\ delivered[2].via = "drain"
    /\ arrivals[1].src = "message" /\ arrivals[2].src = "close"

\* C2: first error wins: a failure that occurs while no error handler is
\* installed and an error is already latched leaves the latch as it was.
C2_FirstWins ==
    [][(Failed /\ on_error.function = None /\ error # NoErr) => error' = error]_vars

\* C3: a set_onmessage made while the message handler runs (the cell is
\* borrowed) does not panic, invokes nothing, drains nothing and leaves the
\* running handler in place, recording the new one as the replacement; when
\* the invocation made for an inbound event returns, the replacement becomes
\* the handler and nothing else changes; an inbound message that finds the
\* cell free (every invocation has returned) finds no replacement pending
\* and goes to the handler then installed, or to the queue when there is
\* none.
C3_SelfReplace ==
    /\ [][(last'.op = "set_onmessage" /\ on_message.borrowed) =>
            /\ panic' = "none"
            /\ stack' = stack /\ delivered' = delivered /\ queue' = queue
            /\ on_message' = [on_message EXCEPT !.replacement = last'.arg]]_vars
    /\ [][(last'.op = "return" /\ Top.cell = "msg" /\ Top.via # "drain"
             /\ on_message.replacement # NoRepl) =>
            /\ on_message' = [function |-> on_message.replacement,
                              replacement |-> NoRepl, borrowed |-> FALSE]
            /\ stack' = Rest /\ delivered' = delivered /\ queue' = queue]_vars
    /\ [][(Arrived /\ can_borrow(on_message)) =>
            /\ on_message.replacement = NoRepl
            /\ IF on_message.function # None
               THEN /\ Latest(delivered').h = on_message.function
                    /\ Len(delivered') = Len(delivered) + 1
                    /\ queue' = queue
               ELSE /\ delivered' = delivered
                    /\ queue' = Append(queue, Latest(arrivals').msg)]_vars

\* h1 was installed, was invoked for a message event, asked for h2 while it
\* ran (the second and last set_onmessage call) and has just returned: h2 is
\* the handler and h1 alone has been invoked
C3_Witness ==
    /\ last.op = "return" /\ last.arg = "message" /\ stack = <<>>
    /\ nSetMsg = 2
    /\ Len(delivered) = 1
    /\ delivered[1].h = "h1" /\ delivered[1].via = "message"
    /\ on_message.function = "h2"

\* C4: a set_onerror made while the error handler runs (the cell is
\* borrowed) completes without a panic, leaves the running handler in place
\* and records the new handler as the replacement.
C4_ReentrantSetOnError ==
    [][(last'.op = "set_onerror" /\ on_error.borrowed) =>
         /\ panic' = "none"
         /\ stack' = stack
         /\ on_error' = [on_error EXCEPT !.replacement = last'.arg]]_vars

\* C5: every failure of the transport is handed to the error handler or
\* stored in the latch, and the program runs on.
C5_FailuresNeverPanic ==
    [][Failed =>
         /\ panic' = "none"
         /\ \/ /\ Len(errDelivered') = Len(errDelivered) + 1
               /\ Latest(errDelivered').err.n = nErr + 1
            \/ error'.n = nErr + 1]_vars

\* C6: a clean close is routed as Message::Text(reason) to the message
\* handler, or to the queue when there is none, and leaves the error handler,
\* the latch and the error history alone; any other close is routed to the
\* error handler, or to the latch when there is none, and leaves the message
\* handler, the queue and the message history alone.
C6_CloseRouting ==
    [][last'.op = "close" =>
         IF last'.arg = "clean"
         THEN /\ on_error' = on_error /\ error' = error
              /\ errDelivered' = errDelivered /\ nErr' = nErr
              /\ Arrived /\ Latest(arrivals').msg = Text(Bye)
              /\ IF on_message.function # None
                 THEN /\ delivered' = Append(delivered,
                            [h |-> on_message.function, msg |-> Text(Bye),
                             via |-> "close"])
                      /\ queue' = queue
                 ELSE /\ queue' = Append(queue, Text(Bye))
                      /\ delivered' = delivered
         ELSE /\ on_message' = on_message /\ queue' = queue
              /\ delivered' = delivered /\ arrivals' = arrivals
              /\ Failed
              /\ IF on_error.function # None
                 THEN /\ errDelivered' = Append(errDelivered,
                            [h |-> on_error.function,
                             err |-> Err(last'.arg, nErr + 1), via |-> "close"])
                      /\ error' = error
                 ELSE /\ error' = Err(last'.arg, nErr + 1)
                      /\ errDelivered' = errDelivered]_vars

\* no replacement is ever pending while a handler that the drain of
\* set_onmessage called is running: set_onmessage takes &mut self, which the
\* drain holds
DrainNeverReplaced ==
    \A i \in DOMAIN stack :
        (stack[i].cell = "msg" /\ stack[i].via = "drain") =>
            on_message.replacement = NoRepl

\* C8: an inbound message that finds no message handler installed invokes
\* nothing and is appended to the queue; the queued messages leave the queue
\* only through the drain, in arrival order, none lost or repeated; and
\* whenever a handler is installed and no invocation is in progress the
\* queue is empty.
C8_NoneSuspends ==
    /\ [][(Arrived /\ on_message.function = None) =>
            /\ delivered' = delivered /\ stack' = stack
            /\ queue' = Append(queue, Latest(arrivals').msg)]_vars
    /\ [](Msgs(Drained) \o queue = Msgs(Buffered))
    /\ []((stack = <<>> /\ on_message.function # None) => queue = <<>>)

\* a handler took a message directly, set_onmessage(None) followed, the next
\* message was queued, and a third set_onmessage has drained it
C8_Witness ==
    /\ nSetMsg = 3 /\ stack = <<>> /\ queue = <<>>
    /\ Len(delivered) = 2
    /\ delivered[1].via = "message" /\ ~arrivals[1].queued
    /\ delivered[2].via = "drain" /\ arrivals[2].queued

\* C9: set_onerror(Some(h)) with an error latched invokes h once with that
\* error and empties the latch; set_onerror(None) neither delivers nor clears
\* it; no error is ever handed to error handlers twice.
C9_LatchDeliveredOnce ==
    /\ [][(last'.op = "set_onerror" /\ error # NoErr) =>
            IF last'.arg # None
            THEN /\ errDelivered' = Append(errDelivered,
                       [h |-> last'.arg, err |-> error, via |-> "set_onerror"])
                 /\ error' = NoErr
                 /\ panic' = "none"
            ELSE /\ error' = error
                 /\ errDelivered' = errDelivered]_vars
    /\ [](\A i, j \in DOMAIN errDelivered :
             errDelivered[i].err = errDelivered[j].err => i = j)

\* a latched error was delivered by one set_onerror, and a later
\* set_onerror(Some(h)) has delivered nothing
C9_Witness ==
    /\ last.op = "set_onerror" /\ last.arg # None /\ stack = <<>>
    /\ nErr = 1 /\ error = NoErr
    /\ Len(errDelivered) = 1 /\ errDelivered[1].via = "set_onerror"

\* C10: the init message is sent at most once, and only if one was given
\* and the transport has opened; the open event, reaching a client made with
\* an init message, sends it, and no other step does; a failure of that send
\* goes to the error handler, or to the latch when there is none.
C10_InitSentOnceAtOpen ==
    /\ [](nInitSend <= 1 /\ (nInitSend = 1 => (opened /\ init_message # None)))
    /\ [][nInitSend' = nInitSend + (IF last'.op = "open" /\ ~opened /\ "open" \in listeners
                                    THEN 1 ELSE 0)]_vars
    /\ [][(last'.op = "open" /\ last'.arg = "fail" /\ ~opened /\ "open" \in listeners) =>
            /\ Failed
            /\ IF on_error.function # None
               THEN /\ errDelivered' = Append(errDelivered,
                          [h |-> on_error.function, err |-> Err("init", nErr + 1),
                           via |-> "open"])
                    /\ error' = error
               ELSE /\ error' = Err("init", nErr + 1)
                    /\ errDelivered' = errDelivered]_vars

\* C11: a send that fails while no error handler invocation is in progress
\* is routed as an error event is: with an error handler installed the
\* handler is invoked once with the failure and the latch stays as it is,
\* else the failure is latched and nothing is invoked; a send that succeeds
\* changes neither handler, nor the latch, nor the queue, and invokes nothing.
C11_SendFailureRouted ==
    [][(last'.op = "send" /\ Invocations("err") = {}) =>
         /\ panic' = "none"
         /\ on_message' = on_message /\ queue' = queue /\ delivered' = delivered
         /\ IF last'.arg = "fail"
            THEN /\ Failed
                 /\ IF on_error.function # None
                    THEN /\ errDelivered' = Append(errDelivered,
                               [h |-> on_error.function,
                                err |-> Err("send", nErr + 1),
                                via |-> "report_error"])
                         /\ error' = error
                         /\ on_error'.function = on_error.function
                    ELSE /\ error' = Err("send", nErr + 1)
                         /\ errDelivered' = errDelivered
                         /\ stack' = stack
                         /\ on_error' = on_error
            ELSE /\ on_error' = on_error /\ error' = error
                 /\ errDelivered' = errDelivered /\ stack' = stack
                 /\ nErr' = nErr]_vars

\* one send failed with no error handler and was latched; after
\* set_onerror(Some(h)) had delivered it, a second send failed and went to h
C11_Witness ==
    /\ last.op = "send" /\ last.arg = "fail" /\ last.depth = 0
    /\ nErr = 2 /\ error = NoErr
    /\ Len(errDelivered) = 2
    /\ errDelivered[1].via = "set_onerror" /\ errDelivered[1].err = Err("send", 1)
    /\ errDelivered[2].via = "report_error" /\ errDelivered[2].err = Err("send", 2)

\* C12: a message event whose payload is neither an ArrayBuffer nor a
\* JsString changes nothing: no handler is invoked, nothing is queued or
\* latched, both cells stay as they are.
C12_UnrecognisedDiscarded ==
    [][(last'.op = "message" /\ last'.arg \notin {"ArrayBuffer", "JsString"}) =>
         UNCHANGED <<on_message, on_error, queue, error, stack,
                     arrivals, delivered, errDelivered, nErr>>]_vars

\* with both handlers installed and nothing queued or latched, a Blob
\* message event has been handled: nobody was invoked
C12_Witness ==
    /\ last.op = "message" /\ last.arg = "Blob"
    /\ on_message.function # None /\ on_error.function # None
    /\ stack = <<>> /\ delivered = <<>> /\ errDelivered = <<>>
    /\ queue = <<>> /\ error = NoErr

\* the listeners new() registers for the client's init_message
Registered ==
    {"message", "error", "close"} \cup (IF init_message # None THEN {"open"} ELSE {})

\* C13: until the client is dropped the registered listeners are those of
\* message, error and close, and that of open if and only if an init message
\* was given; the drop unregisters each of them once and leaves none; after
\* the drop no handler is invoked (the handlers running at the drop only
\* return), and the queue and the latch stay as they are.
C13_ListenersScopedToClient ==
    /\ [](removed = <<>> => listeners = Registered)
    /\ [][last'.op = "drop" =>
            /\ listeners' = {}
            /\ Len(removed') = Cardinality(Registered)
            /\ {removed'[i] : i \in DOMAIN removed'} = Registered]_vars
    /\ [][removed # <<>> =>
            /\ UNCHANGED <<queue, error, delivered, errDelivered, removed,
                           listeners, nInitSend, nErr>>
            /\ Len(stack') <= Len(stack)]_vars

\* a client made with an init message was dropped by its message handler h1,
\* called by the message listener, after h1 had asked for h2; h1 has
\* returned: the four listeners are gone, h2 has landed in the cell
C13_Witness ==
    /\ last.op = "return" /\ last.arg = "message" /\ stack = <<>>
    /\ init_message # None
    /\ listeners = {}
    /\ removed = <<"open", "message", "error", "close">>
    /\ Len(delivered) = 1 /\ delivered[1].h = "h1"
    /\ on_message = [function |-> "h2", replacement |-> NoRepl, borrowed |-> FALSE]

\* what a cell is once the invocation that borrowed it has returned
Landed(cell) ==
    [function |-> IF cell.replacement # NoRepl THEN cell.replacement
                  ELSE cell.function,
     replacement |-> NoRepl]

\* C14: a cell has a pending replacement only while it is borrowed, and it
\* is borrowed exactly while an invocation of its handler is in progress, so
\* with no invocation in progress (when an event is routed) nothing is
\* pending; an install made while the message cell is borrowed overwrites the
\* pending replacement and leaves the handler in place; when an invocation
\* returns, the pending replacement, if any, becomes the handler and nothing
\* is pending any more.
C14_PendingSwap ==
    /\ [](/\ on_message.replacement # NoRepl => on_message.borrowed
          /\ on_error.replacement # NoRepl => on_error.borrowed
          /\ on_message.borrowed = (Invocations("msg") # {})
          /\ on_error.borrowed = (Invocations("err") # {}))
    /\ [][(last'.op = "set_onmessage" /\ on_message.borrowed) =>
            on_message' = [on_message EXCEPT !.replacement = last'.arg]]_vars
    /\ [][(last'.op = "return" /\ Top.cell = "msg") =>
            /\ on_message'.function = Landed(on_message).function
            /\ on_message'.replacement = NoRepl
            /\ on_error' = on_error]_vars
    /\ [][(last'.op = "return" /\ Top.cell = "err") =>
            /\ on_error'.function = Landed(on_error).function
            /\ on_error'.replacement = NoRepl
            /\ on_error'.borrowed = FALSE
            /\ on_message' = on_message]_vars

\* the cell of an invocation in progress
CellOf(frame) == IF frame.cell = "msg" THEN on_message ELSE on_error

\* the latest step started the innermost invocation: a listener or a method
\* went one invocation deeper, or a return went on to the next turn of the
\* drain loop
Started ==
    /\ stack # <<>>
    /\ Len(stack) = last.depth + (IF last.op = "return" THEN 0 ELSE 1)

\* C15: each cell has at most one invocation of its handler in progress; the
\* handler that runs is the one installed in its cell; and an invocation
\* that has just been started runs a handler for which no replacement is
\* pending.
C15_OneInvocationPerSlot ==
    /\ Cardinality(Invocations("msg")) <= 1
    /\ Cardinality(Invocations("err")) <= 1
    /\ \A i \in DOMAIN stack :
          /\ stack[i].h # None
          /\ stack[i].h = CellOf(stack[i]).function
          /\ CellOf(stack[i]).borrowed
    /\ Started => CellOf(Top).replacement = NoRepl

\* the message handler, called by the message listener, has asked for
\* another message handler, which waits as the replacement, and has then
\* installed an error handler, which runs inside it with the latched error
C15_Witness ==
    /\ Len(stack) = 2
    /\ stack[1].cell = "msg" /\ stack[1].via = "message"
    /\ stack[2].cell = "err" /\ stack[2].via = "set_onerror"
    /\ last.op = "set_onerror" /\ last.depth = 1
    /\ on_message.replacement # NoRepl
    /\ panic = "none"

\* C16: whenever no message handler invocation, hence no drain, is in
\* progress and a handler is installed, the queue is empty; and while a
\* handler handles a message it was given directly by a listener the queue
\* is empty, so that message has overtaken none.
C16_InstalledMeansDrained ==
    /\ (Invocations("msg") = {} /\ on_message.function # None) => queue = <<>>
    /\ \A i \in DOMAIN stack :
          (stack[i].cell = "msg" /\ stack[i].via # "drain") => queue = <<>>

\* the error handler, invoked for an error event, has installed a message
\* handler; the drain has handed it the two queued messages and is over,
\* the error handler still runs
C16_Witness ==
    /\ Len(stack) = 1 /\ stack[1].cell = "err" /\ stack[1].via = "error"
    /\ last.op = "return" /\ last.arg = "drain"
    /\ ~on_message.borrowed /\ on_message.function # None
    /\ Len(delivered) = 2 /\ arrivals[1].queued /\ arrivals[2].queued
    /\ queue = <<>>

\* so far the run consists of message events, clean closes and
\* set_onmessage calls (and the returns of the handlers they invoked)
MessagePathOnly == nCalls = nSetMsg /\ nErr = 0 /\ ~opened /\ removed = <<>>

\* C17: after any sequence of message events, clean closes and set_onmessage
\* calls, the messages handed to message handlers so far, followed by the
\* queue, are the recognised inbound messages in arrival order, whoever the
\* handlers were; the ones that found no handler went through the drain of
\* a set_onmessage, the others were handed over by the listener they came
\* through.
C17_Conservation ==
    MessagePathOnly =>
        /\ Conserved
        /\ \A i \in DOMAIN delivered :
              /\ delivered[i].h \in Handlers
              /\ (delivered[i].via = "drain") = arrivals[i].queued
              /\ delivered[i].via # "drain" => delivered[i].via = arrivals[i].src
        /\ \A i \in DOMAIN queue : arrivals[Len(delivered) + i].queued

\* the drain gave the queued message to h1 and returned, set_onmessage(None)
\* followed, and the message that arrived then is queued
C17_Witness ==
    /\ MessagePathOnly
    /\ nSetMsg = 2 /\ stack = <<>>
    /\ Len(arrivals) = 2
    /\ Len(delivered) = 1 /\ delivered[1].via = "drain"
    /\ queue = <<arrivals[2].msg>>
    /\ on_message.function = None

\* C18: whenever no error handler invocation is in progress (hence no
\* set_onerror either), an installed error handler means an empty latch; a step that stores an error in the latch starts from a state with
\* no error handler; and every failure reported while an error handler is
\* installed is handed to that handler, leaves the latch alone and the
\* program runs on.
C18_InstalledMeansUnlatched ==
    /\ []((Invocations("err") = {} /\ on_error.function # None) => error = NoErr)
    /\ [][(error' # error /\ error' # NoErr) => on_error.function = None]_vars
    /\ [][(Failed /\ on_error.function # None) =>
            /\ panic' = "none"
            /\ error' = error
            /\ Len(errDelivered') = Len(errDelivered) + 1
            /\ Latest(errDelivered').h = on_error.function
            /\ Latest(errDelivered').err.n = nErr + 1]_vars

\* the step just taken belongs to the message channel: a message event, a
\* clean close, a set_onmessage, or the return of a message handler
MessageChannelStep ==
    \/ last'.op \in {"message", "set_onmessage"}
    \/ last'.op = "close" /\ last'.arg = "clean"
    \/ last'.op = "return" /\ Top.cell = "msg"

\* the step just taken belongs to the error channel: an error event, a close
\* that is not clean, a failed send, a set_onerror, or the return of an
\* error handler
ErrorChannelStep ==
    \/ last'.op \in {"error", "set_onerror"}
    \/ last'.op = "close" /\ last'.arg # "clean"
    \/ last'.op = "send" /\ last'.arg = "fail"
    \/ last'.op = "return" /\ Top.cell = "err"

\* C19: a step of the message channel leaves the error cell (handler and
\* replacement), the latch and what error handlers were given unchanged; a
\* step of the error channel leaves the message cell (handler and
\* replacement), the queue and what message handlers were given unchanged.
C19_ChannelsIndependent ==
    /\ [][MessageChannelStep =>
            /\ on_error' = on_error /\ error' = error
            /\ errDelivered' = errDelivered /\ nErr' = nErr]_vars
    /\ [][ErrorChannelStep =>
            /\ on_message' = on_message /\ queue' = queue
            /\ delivered' = delivered /\ arrivals' = arrivals]_vars

\* a message waits in the queue with no message handler, and a close that
\* was not clean has just been handed to the error handler: the queue still
\* holds the message
C19_Witness ==
    /\ last.op = "close" /\ last.arg = "unclean"
    /\ Len(stack) = 1 /\ Top.cell = "err" /\ Top.via = "close"
    /\ on_message = HandlerCell_new
    /\ Len(arrivals) = 1 /\ queue = <<arrivals[1].msg>>
    /\ Len(errDelivered) = 1

====
